---- MODULE Spec2Model ----
(***************************************************************************)
(* Face-Detection-System (src/main.py): the batch annotator                *)
(* (FaceDetector.process_directory), the session window                    *)
(* (FaceDetectionApp) and the image viewer (view_images / show_image).     *)
(***************************************************************************)
EXTENDS Integers, Sequences, FiniteSets, TLC

VARIABLES
    \* the machine the program runs on
    fs,               \* the files on disk: path |-> content
    readonly,         \* the directories cv2.imwrite cannot write into
    caseSensitive,    \* Path.glob matches case-sensitively (POSIX) or not (Windows)
    \* FaceDetector.process_directory
    run,              \* the latest call: arguments, what it did, what it returned
    prevRun,          \* the call before it
    runs,             \* number of calls so far
    \* FaceDetectionApp
    input_dir, output_dir, processed_images,
    process_btn, view_images_btn, progress, status_label,
    viewers,          \* the open viewer windows, each with its idx
    event,            \* the handler that ran last, what it called, what it found
    \* show_image's scaling, on its own
    canvas,           \* <<winfo_width, winfo_height>> of the viewer's canvas
    image,            \* <<width, height>> = img.size of the opened image
    rendered          \* what show_image put on the canvas

envVars == <<fs, readonly, caseSensitive>>
batchVars == <<run, prevRun, runs>>
appVars == <<input_dir, output_dir, processed_images, process_btn, view_images_btn,
             progress, status_label, viewers, event>>
scaleVars == <<canvas, image, rendered>>
vars == <<envVars, batchVars, appVars, scaleVars>>

(***************************************************************************)
(* Python floats are IEEE-754 binary64: a 53-bit significand, every        *)
(* operation rounded to nearest, ties to even.  A positive double is       *)
(* modelled as [exp, limbs]: its value is                                  *)
(*     2^exp * (1 + limbs[1]/B + limbs[2]/B^2 + limbs[3]/B^3 + limbs[4]/B^4) *)
(* with B = 2^13, so the four limbs are the 52 bits after the leading 1.   *)
(* The operands of the program are pixel counts; the arithmetic below is   *)
(* exact for ints below 2^11.                                              *)
(***************************************************************************)
LimbBits == 13
Limbs == 4

RECURSIVE Pow2(_)
Pow2(n) == IF n = 0 THEN 1 ELSE 2 * Pow2(n - 1)

Base == Pow2(LimbBits)

\* The e with 2^e <= n < 2^(e+1), for n >= 1.
RECURSIVE Log2(_)
Log2(n) == IF n < 2 THEN 0 ELSE 1 + Log2(n \div 2)

\* limbs + 1; carry is 1 when every limb was Base - 1.
RECURSIVE Increment(_, _)
Increment(limbs, i) ==
    IF i = 0 THEN [limbs |-> limbs, carry |-> 1]
    ELSE IF limbs[i] < Base - 1
    THEN [limbs |-> [limbs EXCEPT ![i] = @ + 1], carry |-> 0]
    ELSE Increment([limbs EXCEPT ![i] = 0], i - 1)

\* Round to nearest, ties to even: guard is the first bit dropped, sticky
\* says whether a later dropped bit is set.
RoundNearestEven(exp, limbs, guard, sticky) ==
    IF guard = 1 /\ (sticky \/ limbs[Limbs] % 2 = 1)
    THEN LET up == Increment(limbs, Limbs)
         IN  [exp |-> exp + up.carry, limbs |-> up.limbs]
    ELSE [exp |-> exp, limbs |-> limbs]

\* The exponent of a/b: the e with 2^e <= a/b < 2^(e+1).
RECURSIVE ExpUp(_, _, _)
ExpUp(a, b, e) == IF a >= 2 * b THEN ExpUp(a, 2 * b, e + 1) ELSE e
RECURSIVE ExpDown(_, _, _)
ExpDown(a, b, e) == IF a >= b THEN e ELSE ExpDown(2 * a, b, e - 1)
QuotientExp(a, b) == IF a >= b THEN ExpUp(a, b, 0) ELSE ExpDown(a, b, 0)

\* The first n base-B digits of r/d (0 <= r < d), and the remainder left.
RECURSIVE FractionLimbs(_, _, _)
FractionLimbs(r, d, n) ==
    IF n = 0 THEN [limbs |-> <<>>, rem |-> r]
    ELSE LET rest == FractionLimbs((r * Base) % d, d, n - 1)
         IN  [limbs |-> <<(r * Base) \div d>> \o rest.limbs, rem |-> rest.rem]

\* a / b for ints a, b > 0 (int true division is correctly rounded).
TrueDiv(a, b) ==
    LET e == QuotientExp(a, b)
        n == IF e >= 0 THEN a ELSE a * Pow2(-e)
        d == IF e >= 0 THEN b * Pow2(e) ELSE b
        \* now 1 <= n/d < 2: the leading bit is 1
        f == FractionLimbs(n - d, d, Limbs)
        guard == IF 2 * f.rem >= d THEN 1 ELSE 0
    IN  RoundNearestEven(e, f.limbs, guard, 2 * f.rem - guard * d # 0)

\* The base-B digits of k * (1.limbs), the top digit first and unbounded.
RECURSIVE TimesLimbs(_, _, _, _)
TimesLimbs(k, limbs, i, carry) ==
    IF i = 0 THEN <<k + carry>>
    ELSE Append(TimesLimbs(k, limbs, i - 1, (k * limbs[i] + carry) \div Base),
                (k * limbs[i] + carry) % Base)

\* k * x for an int k > 0 and a double x (k converts exactly).
IntTimes(k, x) ==
    LET p == TimesLimbs(k, x.limbs, Limbs, 0)
        s == Log2(p[1])
        dropped == p[Limbs + 1] % Pow2(s)
        shifted == [i \in 1..Limbs |->
                      ((p[i] % Pow2(s)) * Base + p[i + 1]) \div Pow2(s)]
    IN  IF s = 0 THEN [exp |-> x.exp, limbs |-> Tail(p)]
        ELSE RoundNearestEven(x.exp + s, shifted, dropped \div Pow2(s - 1),
                              dropped % Pow2(s - 1) # 0)

\* x < y for doubles.
RECURSIVE LimbsLess(_, _, _)
LimbsLess(a, b, i) ==
    IF i > Limbs THEN FALSE
    ELSE IF a[i] # b[i] THEN a[i] < b[i]
    ELSE LimbsLess(a, b, i + 1)
FloatLess(x, y) == x.exp < y.exp \/ (x.exp = y.exp /\ LimbsLess(x.limbs, y.limbs, 1))

\* min(x, y): the first argument unless the second is smaller.
FloatMin(x, y) == IF FloatLess(y, x) THEN y ELSE x

\* The integer part of 2^e * (0.limbs[i..]).
RECURSIVE FractionTop(_, _, _)
FractionTop(limbs, e, i) ==
    IF e <= 0 \/ i > Limbs THEN 0
    ELSE IF e >= LimbBits
    THEN limbs[i] * Pow2(e - LimbBits) + FractionTop(limbs, e - LimbBits, i + 1)
    ELSE limbs[i] \div Pow2(LimbBits - e)

\* int(x): truncation towards zero.
FloatToInt(x) == IF x.exp < 0 THEN 0 ELSE Pow2(x.exp) + FractionTop(x.limbs, x.exp, 1)

(***************************************************************************)
(* show_image's scaling (src/main.py 264-283).                             *)
(***************************************************************************)
ScaleNoUpscale(cw, ch, iw, ih) ==
    FloatMin(FloatMin(TrueDiv(cw, iw), TrueDiv(ch, ih)), TrueDiv(1, 1))
Scale(cw, ch, iw, ih) == FloatMin(TrueDiv(cw, iw), TrueDiv(ch, ih))

ScaledSize(cw, ch, iw, ih) ==
    LET scale == Scale(cw, ch, iw, ih)
    IN  <<FloatToInt(IntTimes(iw, scale)), FloatToInt(IntTimes(ih, scale))>>

Centre(cw, ch) == <<cw \div 2, ch \div 2>>

(***************************************************************************)
(* The file system.  A path is [dir, name]; a file name is                 *)
(* "processed_" * pre + stem + "." + ext, kept as [pre, stem, ext].        *)
(* A file's content is what cv2.imread makes of it: ok says whether it     *)
(* decodes, id names the picture, boxes counts the rectangles drawn on it. *)
(***************************************************************************)
Dirs == {"d1", "d2"}
SubDir == "d1/sub"

FileName(pre, stem, ext) == [pre |-> pre, stem |-> stem, ext |-> ext]
FilePath(dir, name) == [dir |-> dir, name |-> name]

Picture(id) == [ok |-> TRUE, id |-> id, boxes |-> 0]
Undecodable == [ok |-> FALSE, id |-> 0, boxes |-> 0]

\* What the directories may hold before the program first runs.
Candidates ==
    [p \in { FilePath("d1", FileName(0, "a", "jpg")),
             FilePath("d1", FileName(0, "b", "png")),
             FilePath("d1", FileName(0, "c", "jpeg")),
             FilePath("d1", FileName(0, "D", "JPG")),
             FilePath("d1", FileName(0, "n", "txt")),
             FilePath("d1", FileName(1, "a", "jpg")),
             FilePath(SubDir, FileName(0, "e", "jpg")) } |->
        CASE p.name.stem = "a" /\ p.name.pre = 0 -> Picture(1)
          [] p.name.stem \in {"b", "D", "e"} -> Picture(2)
          [] OTHER -> Undecodable]

Restrict(f, S) == [x \in S |-> f[x]]
Put(f, x, v) == [y \in DOMAIN f \cup {x} |-> IF y = x THEN v ELSE f[y]]

\* The text file and the subdirectory's picture are always there.
AlwaysThere ==
    { FilePath("d1", FileName(0, "n", "txt")), FilePath(SubDir, FileName(0, "e", "jpg")) }

MaxCalls == 2
MaxFiles == 3
MaxRuns == 2

(***************************************************************************)
(* FaceDetector (src/main.py 44-86).                                       *)
(***************************************************************************)
\* str.lower() of the extensions in play
Lower(ext) ==
    CASE ext = "JPG" -> "jpg"
      [] ext = "JPEG" -> "jpeg"
      [] ext \in {"PNG", "Png"} -> "png"
      [] OTHER -> ext

\* Path(dir).glob('*.' + ext): the entries directly under dir whose name ends
\* in '.' + ext; pathlib compares case as the platform's file names do.
Glob(fsys, sensitive, dir, ext) ==
    {p \in DOMAIN fsys :
        /\ p.dir = dir
        /\ IF sensitive THEN p.name.ext = ext ELSE Lower(p.name.ext) = Lower(ext)}

\* list(...) of a glob: the directory's own order, whatever it is.
Orderings(S) ==
    {f \in [1..Cardinality(S) -> S] :
        \A i, j \in 1..Cardinality(S) : i # j => f[i] # f[j]}

\* image_files (67-69)
ImageFiles(fsys, sensitive, dir) ==
    {a \o b \o c : a \in Orderings(Glob(fsys, sensitive, dir, "jpg")),
                   b \in Orderings(Glob(fsys, sensitive, dir, "jpeg")),
                   c \in Orderings(Glob(fsys, sensitive, dir, "png"))}

\* cv2.imread: None (here: not ok) for a missing or undecodable file
Imread(fsys, p) == IF p \in DOMAIN fsys THEN fsys[p] ELSE Undecodable

\* face_cascade.detectMultiScale: the number of faces the classifier finds;
\* picture 1 shows one face, the others none.
DetectMultiScale(img) == IF img.id = 1 THEN 1 ELSE 0

\* detect_faces (53-63): one rectangle per face, drawn on img itself
DetectFaces(img) ==
    [img |-> [img EXCEPT !.boxes = @ + DetectMultiScale(img)],
     count |-> DetectMultiScale(img)]

\* cv2.imwrite: False, and nothing written, into a read-only directory
ImwriteOk(ro, p) == p.dir \notin ro

\* f'processed_{img_path.name}'
ProcessedName(name) == [name EXCEPT !.pre = @ + 1]

\* One turn of the loop (76-84).
ProcessOneNoSkip(st, img_path, outdir, ro) ==
    LET img == Imread(st.fs, img_path)
        found == DetectFaces(img)
        output_path == FilePath(outdir, ProcessedName(img_path.name))
        ok == ImwriteOk(ro, output_path)
    IN  [fs |-> IF ok THEN Put(st.fs, output_path, found.img) ELSE st.fs,
         reads |-> Append(st.reads, [path |-> img_path, ok |-> img.ok]),
         warnings |-> IF img.ok THEN st.warnings ELSE Append(st.warnings, img_path),
         detects |-> st.detects + 1,
         writes |-> Append(st.writes, [path |-> output_path, ok |-> ok, img |-> found.img]),
         processed_images |-> Append(st.processed_images, output_path)]

ProcessOne(st, img_path, outdir, ro) ==
    LET img == Imread(st.fs, img_path)
        found == DetectFaces(img)
        output_path == FilePath(outdir, ProcessedName(img_path.name))
        ok == ImwriteOk(ro, output_path)
    IN  IF ~img.ok
        THEN [st EXCEPT !.reads = Append(@, [path |-> img_path, ok |-> FALSE]),
                        !.warnings = Append(@, img_path)]
        ELSE [fs |-> IF ok THEN Put(st.fs, output_path, found.img) ELSE st.fs,
              reads |-> Append(st.reads, [path |-> img_path, ok |-> TRUE]),
              warnings |-> st.warnings,
              detects |-> st.detects + 1,
              writes |-> Append(st.writes, [path |-> output_path, ok |-> ok, img |-> found.img]),
              processed_images |-> Append(st.processed_images, output_path)]

RECURSIVE ProcessLoop(_, _, _, _, _)
ProcessLoop(st, image_files, i, outdir, ro) ==
    IF i > Len(image_files) THEN st
    ELSE ProcessLoop(ProcessOne(st, image_files[i], outdir, ro),
                     image_files, i + 1, outdir, ro)

NoImagesMessage == <<"No images found in the directory.">>
CompletedMessage(n) == <<"Processing completed! Processed ", n, " images.">>

LoopStart(fsys) ==
    [fs |-> fsys, reads |-> <<>>, warnings |-> <<>>, detects |-> 0, writes |-> <<>>,
     processed_images |-> <<>>]

\* process_directory (65-86) on the enumeration image_files; the directories
\* the user picks exist, so os.makedirs(exist_ok=True) changes nothing.
ProcessDirectoryNoEmptyCheck(fsys, ro, image_files, outdir) ==
    LET st == ProcessLoop(LoopStart(fsys), image_files, 1, outdir, ro)
    IN  [result |-> CompletedMessage(Len(st.processed_images)), done |-> st]

ProcessDirectory(fsys, ro, image_files, outdir) ==
    IF image_files = <<>>
    THEN [result |-> NoImagesMessage, done |-> LoopStart(fsys)]
    ELSE LET st == ProcessLoop(LoopStart(fsys), image_files, 1, outdir, ro)
         IN  [result |-> CompletedMessage(Len(st.processed_images)), done |-> st]

\* The record kept of a call.
NoRun ==
    [called |-> FALSE, input_dir |-> "", output_dir |-> "", before |-> <<>>,
     image_files |-> <<>>, reads |-> <<>>, warnings |-> <<>>, detects |-> 0,
     writes |-> <<>>, result |-> <<>>, processed_images |-> <<>>]

RunRecord(fsys, in, out, image_files, ret) ==
    [called |-> TRUE, input_dir |-> in, output_dir |-> out, before |-> fsys,
     image_files |-> image_files, reads |-> ret.done.reads,
     warnings |-> ret.done.warnings, detects |-> ret.done.detects,
     writes |-> ret.done.writes, result |-> ret.result,
     processed_images |-> ret.done.processed_images]

BatchIdle == run = NoRun /\ prevRun = NoRun /\ runs = 0

EnvInit ==
    /\ fs \in {Restrict(Candidates, S \cup AlwaysThere) :
                  S \in SUBSET (DOMAIN Candidates \ AlwaysThere)}
    /\ readonly \in SUBSET Dirs
    /\ caseSensitive \in BOOLEAN

\* A call process_directory(in, out) on a directory of at most MaxFiles
\* images, the call recorded in run.
Call(in, out) ==
    /\ \E image_files \in ImageFiles(fs, caseSensitive, in) :
        /\ Len(image_files) <= MaxFiles
        /\ LET ret == ProcessDirectory(fs, readonly, image_files, out)
           IN  /\ fs' = ret.done.fs
               /\ run' = RunRecord(fs, in, out, image_files, ret)
    /\ UNCHANGED <<readonly, caseSensitive>>

(***************************************************************************)
(* FaceDetectionApp (src/main.py 88-307).  A directory attribute is "None" *)
(* before any dialog, "" after a cancelled dialog, else the directory.     *)
(***************************************************************************)
MaxViewers == 1

\* Python's truth of self.input_dir / self.output_dir
Truthy(dir) == dir \notin {"None", ""}

\* img.size of a decoded picture
ImageSize(img) == IF img.id = 1 THEN <<1600, 400>> ELSE <<640, 480>>

\* the sizes the viewer's canvas takes
WindowSizes == {<<800, 600>>, <<1280, 720>>}

\* new_width, new_height (269-271) for each canvas and picture of the session
SizeOnCanvas ==
    [c \in WindowSizes |->
        [i \in {ImageSize(Picture(1)), ImageSize(Picture(2))} |->
            ScaledSize(c[1], c[2], i[1], i[2])]]

NothingShown == [path |-> <<>>, size |-> <<0, 0>>, at |-> <<0, 0>>]

\* show_image (260-284) in viewer v: an exception leaves the canvas as it was
ShowImage(v, manifest, fsys) ==
    IF v.idx >= Len(manifest) THEN [v EXCEPT !.error = "IndexError"]
    ELSE LET img_path == manifest[v.idx + 1]
         IN  IF img_path \notin DOMAIN fsys
             THEN [v EXCEPT !.error = "FileNotFoundError"]
             ELSE IF ~fsys[img_path].ok
             THEN [v EXCEPT !.error = "UnidentifiedImageError"]
             ELSE [v EXCEPT
                     !.error = "",
                     !.shown = [path |-> img_path,
                                size |-> SizeOnCanvas[v.canvas][ImageSize(fsys[img_path])],
                                at |-> Centre(v.canvas[1], v.canvas[2])]]

\* event: the handler that ran last, the viewer it ran in (0: the main
\* window) and the calls it made that the user or the disk can see
Handled(handler, viewer, calls) ==
    event' = [handler |-> handler, viewer |-> viewer, calls |-> calls]

\* check_ready_to_process (206-208)
ReadyToProcess(in, out) == Truthy(in) /\ Truthy(out)

\* select_input_folder (194-198): askdirectory gives '' when cancelled
SelectInputFolder ==
    \E d \in Dirs \cup {""} :
        /\ input_dir' = d
        /\ IF Truthy(d)
           THEN /\ status_label' = <<"Input folder: ", d>>
                /\ process_btn' = IF ReadyToProcess(d, output_dir) THEN "normal" ELSE process_btn
           ELSE UNCHANGED <<status_label, process_btn>>
        /\ Handled("select_input_folder", 0, <<<<"askdirectory">>>>)
        /\ UNCHANGED <<output_dir, processed_images, view_images_btn, progress,
                       viewers, envVars, batchVars, scaleVars>>

\* select_output_folder (200-204)
SelectOutputFolder ==
    \E d \in Dirs \cup {""} :
        /\ output_dir' = d
        /\ IF Truthy(d)
           THEN /\ status_label' = <<"Output folder: ", d>>
                /\ process_btn' = IF ReadyToProcess(input_dir, d) THEN "normal" ELSE process_btn
           ELSE UNCHANGED <<status_label, process_btn>>
        /\ Handled("select_output_folder", 0, <<<<"askdirectory">>>>)
        /\ UNCHANGED <<input_dir, processed_images, view_images_btn, progress,
                       viewers, envVars, batchVars, scaleVars>>

\* the two messagebox warnings (212, 250)
MissingWarning == <<"showwarning", "Error", "Please select both input and output folders!">>
NoImagesWarning == <<"showwarning", "No Images", "No processed images to display!">>

\* the test of line 211
MissingSelectionInputOnly(in, out) == ~Truthy(in)
MissingSelection(in, out) == ~Truthy(in) \/ ~Truthy(out)

\* process_images (210-224), the command of the Process button
ProcessImages ==
    /\ process_btn = "normal"
    /\ IF MissingSelection(input_dir, output_dir)
       THEN /\ Handled("process_images", 0, <<MissingWarning>>)
            /\ UNCHANGED <<processed_images, progress, status_label, view_images_btn,
                           envVars, runs>>
       ELSE /\ runs < MaxRuns
            /\ \E image_files \in ImageFiles(fs, caseSensitive, input_dir) :
                /\ Len(image_files) <= MaxFiles
                /\ LET ret == ProcessDirectory(fs, readonly, image_files, output_dir)
                   IN  /\ fs' = ret.done.fs
                       /\ processed_images' = ret.done.processed_images
                       /\ status_label' = ret.result
                       /\ Handled("process_images", 0,
                                  <<<<"process_directory", input_dir, output_dir>>,
                                    <<"showinfo", "Processing Complete", ret.result>>>>)
            /\ runs' = runs + 1
            /\ progress' = 100
            /\ view_images_btn' = "normal"
            /\ UNCHANGED <<readonly, caseSensitive>>
    /\ UNCHANGED <<input_dir, output_dir, process_btn, viewers, run, prevRun, scaleVars>>

\* the test of line 249
NothingToShow(manifest) == manifest = <<>>

\* view_images (248-307), the command of the View button; the Configure
\* binding of line 307 is reached only when the first show_image returns
ViewImages ==
    /\ view_images_btn = "normal"
    /\ IF NothingToShow(processed_images)
       THEN /\ Handled("view_images", 0, <<NoImagesWarning>>)
            /\ UNCHANGED viewers
       ELSE /\ Len(viewers) < MaxViewers
            /\ \E size \in WindowSizes :
                LET opened == [idx |-> 0, canvas |-> size, shown |-> NothingShown,
                               error |-> "", bound |-> FALSE]
                    first == ShowImage(opened, processed_images, fs)
                IN  viewers' = Append(viewers, [first EXCEPT !.bound = (first.error = "")])
            /\ Handled("view_images", Len(viewers) + 1, <<<<"Toplevel">>, <<"show_image">>>>)
    /\ UNCHANGED <<input_dir, output_dir, processed_images, process_btn, view_images_btn,
                   progress, status_label, envVars, batchVars, scaleVars>>

\* next_image (286-289) of viewer k
NextImage(k) ==
    /\ IF viewers[k].idx < Len(processed_images) - 1
       THEN /\ viewers' = [viewers EXCEPT
                             ![k] = ShowImage([@ EXCEPT !.idx = @ + 1], processed_images, fs)]
            /\ Handled("next_image", k, <<<<"show_image">>>>)
       ELSE /\ UNCHANGED viewers
            /\ Handled("next_image", k, <<>>)
    /\ UNCHANGED <<input_dir, output_dir, processed_images, process_btn, view_images_btn,
                   progress, status_label, envVars, batchVars, scaleVars>>

\* prev_image (291-294) of viewer k
PrevImage(k) ==
    /\ IF viewers[k].idx > 0
       THEN /\ viewers' = [viewers EXCEPT
                             ![k] = ShowImage([@ EXCEPT !.idx = @ - 1], processed_images, fs)]
            /\ Handled("prev_image", k, <<<<"show_image">>>>)
       ELSE /\ UNCHANGED viewers
            /\ Handled("prev_image", k, <<>>)
    /\ UNCHANGED <<input_dir, output_dir, processed_images, process_btn, view_images_btn,
                   progress, status_label, envVars, batchVars, scaleVars>>

\* the <Configure> binding (307) of viewer k: the canvas takes another size
Configure(k) ==
    /\ viewers[k].bound
    /\ \E size \in WindowSizes \ {viewers[k].canvas} :
        viewers' = [viewers EXCEPT
                      ![k] = ShowImage([@ EXCEPT !.canvas = size], processed_images, fs)]
    /\ Handled("configure", k, <<<<"show_image">>>>)
    /\ UNCHANGED <<input_dir, output_dir, processed_images, process_btn, view_images_btn,
                   progress, status_label, envVars, batchVars, scaleVars>>

\* the user closes viewer k; a Toplevel is destroyed by its close button
CloseViewer(k) ==
    /\ viewers' = [i \in 1..(Len(viewers) - 1) |->
                     IF i < k THEN viewers[i] ELSE viewers[i + 1]]
    /\ Handled("close", k, <<>>)
    /\ UNCHANGED <<input_dir, output_dir, processed_images, process_btn, view_images_btn,
                   progress, status_label, envVars, batchVars, scaleVars>>

MaxWidth == 4
MaxHeight == 15
Viewports == ((1..MaxWidth) \X (1..MaxHeight)) \cup {<<800, 600>>}
ImageSizes == ((1..MaxWidth) \X (1..MaxHeight)) \cup {<<1600, 400>>}
NotRendered == [size |-> <<0, 0>>, at |-> <<0, 0>>, drawn |-> FALSE]
ScaleIdle == canvas = <<1, 1>> /\ image = <<1, 1>> /\ rendered = NotRendered
AppIdle ==
    /\ input_dir = "None" /\ output_dir = "None" /\ processed_images = <<>>
    /\ process_btn = "disabled" /\ view_images_btn = "disabled"
    /\ progress = 0 /\ status_label = <<>>
    /\ viewers = <<>> /\ event = <<>>
EnvIdle == fs = <<>> /\ readonly = {} /\ caseSensitive = TRUE

ScaleInit ==
    /\ canvas \in Viewports
    /\ image \in ImageSizes
    /\ rendered = NotRendered
    /\ EnvIdle /\ BatchIdle /\ AppIdle

ScaleRender ==
    /\ rendered' = [size |-> ScaledSize(canvas[1], canvas[2], image[1], image[2]),
                    at |-> Centre(canvas[1], canvas[2]),
                    drawn |-> TRUE]
    /\ UNCHANGED <<canvas, image, envVars, batchVars, appVars>>

ScaleConfigure ==
    /\ rendered.drawn
    /\ \E c \in Viewports :
        /\ c # canvas
        /\ canvas' = c
        /\ rendered' = [size |-> ScaledSize(c[1], c[2], image[1], image[2]),
                        at |-> Centre(c[1], c[2]),
                        drawn |-> TRUE]
    /\ UNCHANGED <<image, envVars, batchVars, appVars>>

ScaleNext == ScaleRender \/ ScaleConfigure

SpecScale == ScaleInit /\ [][ScaleNext]_vars

BatchInit == EnvInit /\ BatchIdle /\ AppIdle /\ ScaleIdle

BatchCall ==
    /\ runs < MaxCalls
    /\ \E in \in Dirs, out \in Dirs : Call(in, out)
    /\ prevRun' = run
    /\ runs' = runs + 1
    /\ UNCHANGED <<appVars, scaleVars>>

BatchNext == BatchCall

SpecBatch == BatchInit /\ [][BatchNext]_vars

\* The session starts on a machine whose d1 holds two pictures and a corrupt
\* file and whose d2 is empty.
AppDirectories ==
    { { FilePath("d1", FileName(0, "a", "jpg")), FilePath("d1", FileName(0, "b", "png")),
        FilePath("d1", FileName(0, "c", "jpeg")) } }

Init ==
    /\ fs \in {Restrict(Candidates, S) : S \in AppDirectories}
    /\ readonly \in SUBSET {"d2"}
    /\ caseSensitive = TRUE
    /\ BatchIdle /\ AppIdle /\ ScaleIdle

Next ==
    \/ SelectInputFolder
    \/ SelectOutputFolder
    \/ ProcessImages
    \/ ViewImages
    \/ \E k \in 1..Len(viewers) : NextImage(k)
    \/ \E k \in 1..Len(viewers) : PrevImage(k)
    \/ \E k \in 1..Len(viewers) : Configure(k)
    \/ \E k \in 1..Len(viewers) : CloseViewer(k)

Spec == Init /\ [][Next]_vars

(***************************************************************************)
(* Properties of process_directory, read off the record of the latest call *)
(***************************************************************************)
Range(q) == {q[i] : i \in 1..Len(q)}
AllowList == {"jpg", "jpeg", "png"}
OutputPathOf(r, p) == FilePath(r.output_dir, ProcessedName(p.name))

\* The files the call wrote successfully, with what it wrote.
OutputFiles(r) ==
    {[path |-> r.writes[i].path, img |-> r.writes[i].img] :
        i \in {j \in 1..Len(r.writes) : r.writes[j].ok}}

\* The output paths of the files of q at the indices in keep, in q's order.
RECURSIVE OutputsOf(_, _, _, _)
OutputsOf(r, q, i, keep) ==
    IF i > Len(q) THEN <<>>
    ELSE (IF i \in keep THEN <<OutputPathOf(r, q[i])>> ELSE <<>>)
         \o OutputsOf(r, q, i + 1, keep)

\* C1: every path of the returned manifest is a file the call wrote
\* successfully: neither a file whose decode failed nor one whose write
\* failed is in the manifest.
C1_ManifestOnlyWritten ==
    run.called =>
        /\ \A p \in Range(run.processed_images) :
              \E w \in OutputFiles(run) : w.path = p
        /\ \A i \in 1..Len(run.reads) :
              ~run.reads[i].ok =>
                  OutputPathOf(run, run.reads[i].path) \notin Range(run.processed_images)
        /\ \A i \in 1..Len(run.writes) :
              ~run.writes[i].ok => run.writes[i].path \notin Range(run.processed_images)

C3_CaseInsensitiveSelection ==
    run.called =>
        Range(run.image_files) =
            {p \in DOMAIN run.before :
                p.dir = run.input_dir /\ Lower(p.name.ext) \in AllowList}

\* C4: a call on a directory with no file matching the allow-list returns
\* the fixed message and an empty manifest, decodes, detects and writes
\* nothing, and leaves the files as they were.
OnlyNonImages(r) ==
    \A p \in DOMAIN r.before :
        p.dir = r.input_dir => Lower(p.name.ext) \notin AllowList

C4_NoImagesFound ==
    (run.called /\ OnlyNonImages(run)) =>
        /\ run.result = NoImagesMessage
        /\ run.processed_images = <<>>
        /\ run.reads = <<>> /\ run.detects = 0 /\ run.writes = <<>>
        /\ fs = run.before

C4_Witness ==
    /\ run.called /\ OnlyNonImages(run)
    /\ \E p \in DOMAIN run.before : p.dir = run.input_dir
    /\ run.result = NoImagesMessage
    /\ fs = run.before

\* C9: a second call with the same pair of directories writes the same
\* output files as the first and returns a manifest that is not shorter,
\* whether or not the two directories are the same one.
C9_SecondRunIdentical ==
    (run.called /\ prevRun.called
        /\ run.input_dir = prevRun.input_dir /\ run.output_dir = prevRun.output_dir) =>
        /\ OutputFiles(run) = OutputFiles(prevRun)
        /\ Len(run.processed_images) >= Len(prevRun.processed_images)

(***************************************************************************)
(* Properties of the session and its viewers                               *)
(***************************************************************************)
\* C5: process_images with the input or the output directory unselected
\* shows the warning and stops: no process_directory call, no file written,
\* manifest, progress and View button as they were.
C5_MissingSelectionAborts ==
    [][(event'.handler = "process_images"
            /\ (~Truthy(input_dir) \/ ~Truthy(output_dir))) =>
        /\ event'.calls = <<MissingWarning>>
        /\ fs' = fs /\ runs' = runs
        /\ processed_images' = processed_images
        /\ progress' = progress
        /\ view_images_btn' = view_images_btn]_vars

C5_Witness ==
    /\ event # <<>> /\ event.handler = "process_images"
    /\ event.calls = <<MissingWarning>>
    /\ process_btn = "normal"
    /\ input_dir = "" /\ Truthy(output_dir)
    /\ processed_images # <<>> /\ progress = 100

\* C6: the session has no viewer at the start and whenever its manifest is
\* empty; view_images on an empty manifest shows the warning, opens no viewer
\* and changes nothing else; a viewer is opened only by view_images on a
\* non-empty manifest, one at a time, with idx 0.
C6_NoManifestNoViewer ==
    /\ processed_images = <<>> /\ viewers = <<>>
    /\ [][/\ processed_images' = <<>> => viewers' = <<>>
          /\ (event'.handler = "view_images" /\ processed_images = <<>>) =>
                /\ event'.calls = <<NoImagesWarning>>
                /\ viewers' = viewers
                /\ UNCHANGED <<input_dir, output_dir, processed_images, process_btn,
                               view_images_btn, progress, status_label, fs>>
          /\ Len(viewers') > Len(viewers) =>
                /\ event'.handler = "view_images"
                /\ processed_images # <<>>
                /\ Len(viewers') = Len(viewers) + 1
                /\ viewers'[Len(viewers')].idx = 0
                /\ \A k \in 1..Len(viewers) : viewers'[k] = viewers[k]]_vars

\* C7: in a viewer, previous() at index 0 and next() at the last index leave
\* the index alone and render nothing; at any other index previous() takes 1
\* off the index and next() adds 1; the manifest stays as it is.
C7_NavigationSteps ==
    [][\A k \in 1..Len(viewers) :
          /\ (event'.handler = "next_image" /\ event'.viewer = k) =>
                /\ processed_images' = processed_images
                /\ IF viewers[k].idx = Len(processed_images) - 1
                   THEN viewers'[k].idx = viewers[k].idx /\ event'.calls = <<>>
                   ELSE viewers'[k].idx = viewers[k].idx + 1
          /\ (event'.handler = "prev_image" /\ event'.viewer = k) =>
                /\ processed_images' = processed_images
                /\ IF viewers[k].idx = 0
                   THEN viewers'[k].idx = 0 /\ event'.calls = <<>>
                   ELSE viewers'[k].idx = viewers[k].idx - 1]_vars

\* C8: the idx of every open viewer is an index of the session's manifest,
\* and no render has looked for an entry that is not there.
C8_IndexInManifest ==
    \A k \in 1..Len(viewers) :
        /\ viewers[k].idx >= 0
        /\ viewers[k].idx <= Len(processed_images) - 1
        /\ viewers[k].error # "IndexError"

(***************************************************************************)
(* Properties of the scaling                                               *)
(***************************************************************************)
\* floor(iw * s) and floor(ih * s) for the real number s = min(cw/iw, ch/ih),
\* and whether each product is a whole number.
WidthBinds(cw, ch, iw, ih) == cw * ih <= ch * iw
ExactSize(cw, ch, iw, ih) ==
    IF WidthBinds(cw, ch, iw, ih) THEN <<cw, (ih * cw) \div iw>>
    ELSE <<(iw * ch) \div ih, ch>>
ExactWhole(cw, ch, iw, ih) ==
    IF WidthBinds(cw, ch, iw, ih) THEN <<TRUE, (ih * cw) % iw = 0>>
    ELSE <<(iw * ch) % ih = 0, TRUE>>

\* C10 as stated: the image is drawn at (floor(iw*scale), floor(ih*scale))
\* for scale = min(vw/iw, vh/ih), centred at (vw div 2, vh div 2), never
\* larger than the viewport; 1600x400 in 800x600 is drawn 800x200.
C10_ExactFloor ==
    rendered.drawn =>
        /\ rendered.size = ExactSize(canvas[1], canvas[2], image[1], image[2])
        /\ rendered.at = <<canvas[1] \div 2, canvas[2] \div 2>>
        /\ rendered.size[1] <= canvas[1] /\ rendered.size[2] <= canvas[2]
        /\ (canvas = <<800, 600>> /\ image = <<1600, 400>>) => rendered.size = <<800, 200>>

\* C10 amended: each side drawn is int() of a double-precision product: the
\* floor of the real product, or one less where the real product is a whole
\* number that the two roundings fall short of; the rest as stated.
C10_DoubleFloor ==
    rendered.drawn =>
        LET exact == ExactSize(canvas[1], canvas[2], image[1], image[2])
            whole == ExactWhole(canvas[1], canvas[2], image[1], image[2])
        IN  /\ \A d \in 1..2 :
                  \/ rendered.size[d] = exact[d]
                  \/ rendered.size[d] = exact[d] - 1 /\ whole[d]
            /\ rendered.at = <<canvas[1] \div 2, canvas[2] \div 2>>
            /\ rendered.size[1] <= canvas[1] /\ rendered.size[2] <= canvas[2]
            /\ (canvas = <<800, 600>> /\ image = <<1600, 400>>) =>
                  rendered.size = <<800, 200>>

C10_Witness ==
    /\ rendered.drawn
    /\ canvas = <<800, 600>> /\ image = <<1600, 400>>
    /\ rendered.size = <<800, 200>> /\ rendered.at = <<400, 300>>

====
